---- MODULE Spec2Model ----
(***************************************************************************)
(* Language dataset loader (src/src/data/languages/index.ts) and language  *)
(* detection utility (src/src/data/languages/schema.ts).                   *)
(*                                                                         *)
(* A JavaScript string is a sequence of one-character strings, so that     *)
(* toLowerCase and trim are computed character by character.  A dataset    *)
(* object is a record [id, data]: id is the identity of the object literal *)
(* that processDataset allocated, data its ten fields.                     *)
(***************************************************************************)
EXTENDS Integers, Sequences, FiniteSets, TLC

VARIABLES datasetCache, generation, allocated, last, held, detected

vars == <<datasetCache, generation, allocated, last, held, detected>>

\* ------------------------------------------------------------------ bounds

\* clearCache may be called this many times in one behaviour
MaxClears == 1

\* at most this many objects are allocated for one raw dataset between two
\* clearCache calls (the loader itself allocates one)
MaxAllocs == 2

\* ----------------------------------------------------------------- strings

UpperCase == <<"A","B","C","D","E","F","G","H","I","J","K","L","M",
               "N","O","P","Q","R","S","T","U","V","W","X","Y","Z">>
LowerCase == <<"a","b","c","d","e","f","g","h","i","j","k","l","m",
               "n","o","p","q","r","s","t","u","v","w","x","y","z">>

WhiteSpace == {" ", "\t", "\n"}

\* The lower-case letter of each upper-case letter.
LowerOf == [ch \in {UpperCase[i] : i \in DOMAIN UpperCase} |->
               LowerCase[CHOOSE i \in DOMAIN UpperCase : UpperCase[i] = ch]]

ToLowerChar(ch) == IF ch \in DOMAIN LowerOf THEN LowerOf[ch] ELSE ch

\* String.prototype.toLowerCase
toLowerCase(s) == [i \in 1..Len(s) |-> ToLowerChar(s[i])]

RECURSIVE TrimStart(_)
TrimStart(s) ==
    IF s # <<>> /\ Head(s) \in WhiteSpace THEN TrimStart(Tail(s)) ELSE s

RECURSIVE TrimEnd(_)
TrimEnd(s) ==
    IF s # <<>> /\ s[Len(s)] \in WhiteSpace
    THEN TrimEnd(SubSeq(s, 1, Len(s) - 1))
    ELSE s

\* String.prototype.trim
trim(s) == TrimEnd(TrimStart(s))

\* const normalizedCode = langCode.toLowerCase().trim();
normalizedCode(langCode) == trim(toLowerCase(langCode))

\* --------------------------------------------------------- language codes

en == <<"e","n">>
es == <<"e","s">>
fr == <<"f","r">>
de == <<"d","e">>
pt == <<"p","t">>
it == <<"i","t">>
nl == <<"n","l">>
pl == <<"p","l">>
ru == <<"r","u">>

SUPPORTED_LANGUAGES == <<en, es, fr, de, pt, it, nl, pl, ru>>

Range(s) == {s[i] : i \in DOMAIN s}

isSupportedLanguage(code) == code \in Range(SUPPORTED_LANGUAGES)

\* -------------------------------------------------------- raw registrations

\* The imported JSON modules, in the order the table lists them.
DataFiles == <<"en.json", "es.json", "fr.json", "de.json", "pt.json",
               "it.json", "nl.json", "pl.json", "ru.json">>

\* The ten fields of RawLanguageData / LanguageDataset.
DatasetFields == {"language", "languageName", "spamWords", "spamSingleWords",
                  "spamSubjectPatterns", "hamWords", "bayesianTokens",
                  "urgencyWords", "greetingWords", "genericGreetings"}

\* The content of one JSON module: every field holds a value of that file;
\* spamSubjectPatterns is a list of {pattern, score, name} objects.
RawLanguageData(file) ==
    [kind                |-> "object",
     language            |-> <<file, "language">>,
     languageName        |-> <<file, "languageName">>,
     spamWords           |-> <<file, "spamWords">>,
     spamSingleWords     |-> <<file, "spamSingleWords">>,
     spamSubjectPatterns |->
         <<[pattern |-> <<file, "pattern", 1>>, score |-> 1, name |-> <<file, "name", 1>>],
           [pattern |-> <<file, "pattern", 2>>, score |-> 2, name |-> <<file, "name", 2>>]>>,
     hamWords            |-> <<file, "hamWords">>,
     bayesianTokens      |-> <<file, "bayesianTokens">>,
     urgencyWords        |-> <<file, "urgencyWords">>,
     greetingWords       |-> <<file, "greetingWords">>,
     genericGreetings    |-> <<file, "genericGreetings">>]

enData == RawLanguageData("en.json")

\* The own keys of the languageDataMap object literal, in insertion order.
languageDataMapKeys == <<en, es, fr, de, pt, it, nl, pl, ru>>

IndexOf(seq, x) == CHOOSE i \in DOMAIN seq : seq[i] = x

\* Property names every object literal inherits from Object.prototype.
ObjectPrototypeKeys ==
    { <<"c","o","n","s","t","r","u","c","t","o","r">>,
      <<"_","_","p","r","o","t","o","_","_">>,
      <<"t","o","S","t","r","i","n","g">>,
      <<"v","a","l","u","e","O","f">>,
      <<"h","a","s","O","w","n","P","r","o","p","e","r","t","y">> }

Undefined == [kind |-> "undefined"]

\* languageDataMap[key]: an own property, else a property inherited from
\* Object.prototype (a function or object that is no dataset), else undefined.
OwnProperties ==
    [key \in {languageDataMapKeys[i] : i \in DOMAIN languageDataMapKeys} |->
        RawLanguageData(DataFiles[IndexOf(languageDataMapKeys, key)])]

languageDataMap(key) ==
    IF key \in DOMAIN OwnProperties
    THEN OwnProperties[key]
    ELSE IF key \in ObjectPrototypeKeys
         THEN [kind |-> "object", builtin |-> key]
         ELSE Undefined

\* JavaScript truthiness of a table lookup (an object is truthy).
Truthy(v) == v.kind = "object"

\* ---------------------------------------------------------- processDataset

Returned(v) == [kind |-> "return", value |-> v]
Thrown(e) == [kind |-> "throw", value |-> [error |-> e]]

\* The identity of the object a processDataset call allocates: the n-th
\* object built from that raw dataset since the g-th clearCache.
ObjectId(g, raw, n) == [generation |-> g, from |-> raw.language, serial |-> n]

\* processDataset(raw): a new object holding raw's fields, the pattern list
\* copied element by element.  raw.spamSubjectPatterns.map(...) is a
\* TypeError when raw has no such property.
processDataset(raw, id) ==
    IF "spamSubjectPatterns" \in DOMAIN raw
    THEN Returned(
           [id   |-> id,
            data |-> [language            |-> raw.language,
                      languageName        |-> raw.languageName,
                      spamWords           |-> raw.spamWords,
                      spamSingleWords     |-> raw.spamSingleWords,
                      spamSubjectPatterns |->
                          [i \in DOMAIN raw.spamSubjectPatterns |->
                              [pattern |-> raw.spamSubjectPatterns[i].pattern,
                               score   |-> raw.spamSubjectPatterns[i].score,
                               name    |-> raw.spamSubjectPatterns[i].name]],
                      hamWords            |-> raw.hamWords,
                      bayesianTokens      |-> raw.bayesianTokens,
                      urgencyWords        |-> raw.urgencyWords,
                      greetingWords       |-> raw.greetingWords,
                      genericGreetings    |-> raw.genericGreetings]])
    ELSE Thrown("TypeError")

\* ----------------------------------------------------------- module state

\* datasetCache: a Map, here a function whose domain is the set of keys
\*               present.
\* generation:   the number of clearCache calls so far.
\* allocated:    for each raw dataset, the number of objects processDataset
\*               built from it since the last clearCache.
\* last:         the most recent call, its argument and what it produced.
\* held:         the result of an earlier getLanguageData call that its
\*               caller still holds a reference to.
\* detected:     a call of one of the detection functions: its arguments,
\*               francAll's answers, and once it has run, its results.

EmptyMap == [k \in {} |-> Undefined]

MapSet(map, key, value) == [k \in DOMAIN map \cup {key} |->
                               IF k = key THEN value ELSE map[k]]

NoAllocations == [f \in Range(DataFiles) |-> 0]

FileOf(raw) == raw.language[1]

NoCall == [op |-> "none", input |-> <<>>, result |-> Returned(Undefined),
           warned |-> FALSE, generation |-> 0]

Call(op, input, result, warned, g) ==
    [op |-> op, input |-> input, result |-> result, warned |-> warned,
     generation |-> g]

\* ---------------------------------------------------------- getLanguageData

\* getLanguageData without the "check cache first" return: every call for a
\* registered code builds a new object.
getLanguageData_NoCacheCheck(cache, alloc, g, langCode) ==
    LET key == normalizedCode(langCode)
        rawData == languageDataMap(key)
    IN  IF Truthy(rawData)
        THEN LET made == processDataset(rawData,
                            ObjectId(g, rawData, alloc[FileOf(rawData)] + 1))
             IN  IF made.kind = "throw"
                 THEN [cache |-> cache, alloc |-> alloc,
                       result |-> made, warned |-> FALSE]
                 ELSE [cache |-> MapSet(cache, key, made.value),
                       alloc |-> [alloc EXCEPT ![FileOf(rawData)] = @ + 1],
                       result |-> made, warned |-> FALSE]
        ELSE LET warned == key # en
                 made == processDataset(enData,
                            ObjectId(g, enData, alloc[FileOf(enData)] + 1))
             IN  IF en \in DOMAIN cache
                 THEN [cache |-> cache, alloc |-> alloc,
                       result |-> Returned(cache[en]), warned |-> warned]
                 ELSE [cache |-> MapSet(cache, en, made.value),
                       alloc |-> [alloc EXCEPT ![FileOf(enData)] = @ + 1],
                       result |-> made, warned |-> warned]

\* getLanguageData caching the English fallback under the requested code
\* as well as under "en".
getLanguageData_FallbackUnderKey(cache, alloc, g, langCode) ==
    LET key == normalizedCode(langCode)
        rawData == languageDataMap(key)
    IN  IF key \in DOMAIN cache
        THEN [cache |-> cache, alloc |-> alloc,
              result |-> Returned(cache[key]), warned |-> FALSE]
        ELSE IF Truthy(rawData)
        THEN LET made == processDataset(rawData,
                            ObjectId(g, rawData, alloc[FileOf(rawData)] + 1))
             IN  IF made.kind = "throw"
                 THEN [cache |-> cache, alloc |-> alloc,
                       result |-> made, warned |-> FALSE]
                 ELSE [cache |-> MapSet(cache, key, made.value),
                       alloc |-> [alloc EXCEPT ![FileOf(rawData)] = @ + 1],
                       result |-> made, warned |-> FALSE]
        ELSE LET warned == key # en
                 made == processDataset(enData,
                            ObjectId(g, enData, alloc[FileOf(enData)] + 1))
             IN  IF en \in DOMAIN cache
                 THEN [cache |-> MapSet(cache, key, cache[en]), alloc |-> alloc,
                       result |-> Returned(cache[en]), warned |-> warned]
                 ELSE [cache |-> MapSet(MapSet(cache, en, made.value), key, made.value),
                       alloc |-> [alloc EXCEPT ![FileOf(enData)] = @ + 1],
                       result |-> made, warned |-> warned]

\* What one getLanguageData call does: the cache and the allocation counts
\* it leaves, its result (a returned dataset or a thrown error) and whether
\* it called console.warn.
getLanguageData(cache, alloc, g, langCode) ==
    LET key == normalizedCode(langCode)
        rawData == languageDataMap(key)
    IN  IF key \in DOMAIN cache
        THEN [cache |-> cache, alloc |-> alloc,
              result |-> Returned(cache[key]), warned |-> FALSE]
        ELSE IF Truthy(rawData)
        THEN LET made == processDataset(rawData,
                            ObjectId(g, rawData, alloc[FileOf(rawData)] + 1))
             IN  IF made.kind = "throw"
                 THEN [cache |-> cache, alloc |-> alloc,
                       result |-> made, warned |-> FALSE]
                 ELSE [cache |-> MapSet(cache, key, made.value),
                       alloc |-> [alloc EXCEPT ![FileOf(rawData)] = @ + 1],
                       result |-> made, warned |-> FALSE]
        ELSE LET warned == key # en
                 made == processDataset(enData,
                            ObjectId(g, enData, alloc[FileOf(enData)] + 1))
             IN  IF en \in DOMAIN cache
                 THEN [cache |-> cache, alloc |-> alloc,
                       result |-> Returned(cache[en]), warned |-> warned]
                 ELSE [cache |-> MapSet(cache, en, made.value),
                       alloc |-> [alloc EXCEPT ![FileOf(enData)] = @ + 1],
                       result |-> made, warned |-> warned]

\* hasLanguageData(langCode): the lookup is neither null nor undefined.
hasLanguageData(langCode) ==
    LET normalized == normalizedCode(langCode)
    IN  languageDataMap(normalized).kind # "null"
          /\ languageDataMap(normalized).kind # "undefined"

\* getAvailableLanguages(): Object.entries (own properties, insertion
\* order), without the null entries.
getAvailableLanguages ==
    SelectSeq(languageDataMapKeys, LAMBDA code : languageDataMap(code).kind # "null")

\* getAllSupportedLanguages()
getAllSupportedLanguages == SUPPORTED_LANGUAGES

\* preloadAllLanguages(): the loop over Object.entries(languageDataMap),
\* from its i-th entry on.
RECURSIVE PreloadFrom(_, _, _, _)
PreloadFrom(i, cache, alloc, g) ==
    IF i > Len(languageDataMapKeys)
    THEN [cache |-> cache, alloc |-> alloc]
    ELSE LET code == languageDataMapKeys[i]
             data == languageDataMap(code)
         IN  IF Truthy(data) /\ code \notin DOMAIN cache
             THEN PreloadFrom(i + 1,
                      MapSet(cache, code,
                             processDataset(data,
                                 ObjectId(g, data, alloc[FileOf(data)] + 1)).value),
                      [alloc EXCEPT ![FileOf(data)] = @ + 1], g)
             ELSE PreloadFrom(i + 1, cache, alloc, g)

\* preloadAllLanguages without the !datasetCache.has(code) test: entries
\* already cached are built again and replaced.
RECURSIVE PreloadAgainFrom(_, _, _, _)
PreloadAgainFrom(i, cache, alloc, g) ==
    IF i > Len(languageDataMapKeys)
    THEN [cache |-> cache, alloc |-> alloc]
    ELSE LET code == languageDataMapKeys[i]
             data == languageDataMap(code)
         IN  IF Truthy(data)
             THEN PreloadAgainFrom(i + 1,
                      MapSet(cache, code,
                             processDataset(data,
                                 ObjectId(g, data, alloc[FileOf(data)] + 1)).value),
                      [alloc EXCEPT ![FileOf(data)] = @ + 1], g)
             ELSE PreloadAgainFrom(i + 1, cache, alloc, g)

preloadAllLanguages_NoHasCheck(cache, alloc, g) == PreloadAgainFrom(1, cache, alloc, g)

preloadAllLanguages(cache, alloc, g) == PreloadFrom(1, cache, alloc, g)

\* clearCache(): datasetCache.clear()
clearCache(cache) == EmptyMap

\* The field accessors: getLanguageData(langCode).<field>
Project(result, field) ==
    IF result.kind = "return" THEN Returned(result.value.data[field]) ELSE result

\* ------------------------------------------------------------------ inputs

\* The strings callers pass: registered codes in several spellings, codes
\* with no dataset, the empty and the blank string, and names of properties
\* of Object.prototype.
LangCodes ==
    { en,
      <<" ","E","N"," ">>,
      <<"E","n">>,
      es,
      <<>>,
      <<"x","x">>,
      <<"z","z","-","u","n","k","n","o","w","n">>,
      <<"c","o","n","s","t","r","u","c","t","o","r">>,
      <<"_","_","p","r","o","t","o","_","_">>,
      <<"t","o","S","t","r","i","n","g">> }

NoDetection ==
    [op |-> "none", pending |-> FALSE, text |-> <<>>, body |-> <<>>,
     number |-> 0, weight |-> [num |-> 0, den |-> 1],
     first |-> <<>>, second |-> <<>>, results |-> <<>>]

\* ----------------------------------------------------------------- actions

Init ==
    /\ datasetCache = EmptyMap
    /\ generation = 0
    /\ allocated = NoAllocations
    /\ last = NoCall
    /\ held = NoCall
    /\ detected = NoDetection

WithinBounds(alloc) == \A f \in DOMAIN alloc : alloc[f] <= MaxAllocs

\* getLanguageData(langCode); the caller keeps the returned reference or
\* drops it.
GetLanguageData(langCode, keep) ==
    LET r == getLanguageData(datasetCache, allocated, generation, langCode)
        call == Call("getLanguageData", langCode, r.result, r.warned, generation)
    IN  /\ WithinBounds(r.alloc)
        /\ datasetCache' = r.cache
        /\ allocated' = r.alloc
        /\ last' = call
        /\ held' = IF keep THEN call ELSE held
        /\ UNCHANGED <<generation, detected>>

Accessor(op, field, langCode) ==
    LET r == getLanguageData(datasetCache, allocated, generation, langCode)
    IN  /\ WithinBounds(r.alloc)
        /\ datasetCache' = r.cache
        /\ allocated' = r.alloc
        /\ last' = Call(op, langCode, Project(r.result, field), r.warned, generation)
        /\ UNCHANGED <<generation, held, detected>>

GetSpamWords(langCode) == Accessor("getSpamWords", "spamWords", langCode)

GetHamWords(langCode) == Accessor("getHamWords", "hamWords", langCode)

GetBayesianTokens(langCode) ==
    Accessor("getBayesianTokens", "bayesianTokens", langCode)

GetUrgencyWords(langCode) == Accessor("getUrgencyWords", "urgencyWords", langCode)

HasLanguageData(langCode) ==
    /\ last' = Call("hasLanguageData", langCode,
                    Returned(hasLanguageData(langCode)), FALSE, generation)
    /\ UNCHANGED <<datasetCache, generation, allocated, held, detected>>

GetAvailableLanguages ==
    /\ last' = Call("getAvailableLanguages", <<>>,
                    Returned(getAvailableLanguages), FALSE, generation)
    /\ UNCHANGED <<datasetCache, generation, allocated, held, detected>>

GetAllSupportedLanguages ==
    /\ last' = Call("getAllSupportedLanguages", <<>>,
                    Returned(getAllSupportedLanguages), FALSE, generation)
    /\ UNCHANGED <<datasetCache, generation, allocated, held, detected>>

PreloadAllLanguages ==
    LET r == preloadAllLanguages(datasetCache, allocated, generation)
    IN  /\ WithinBounds(r.alloc)
        /\ datasetCache' = r.cache
        /\ allocated' = r.alloc
        /\ last' = Call("preloadAllLanguages", <<>>, Returned(Undefined), FALSE,
                        generation)
        /\ UNCHANGED <<generation, held, detected>>

\* clearCache(); the allocation counts start again for the new generation.
ClearCache ==
    /\ generation < MaxClears
    /\ datasetCache' = clearCache(datasetCache)
    /\ generation' = generation + 1
    /\ allocated' = NoAllocations
    /\ last' = Call("clearCache", <<>>, Returned(Undefined), FALSE, generation + 1)
    /\ UNCHANGED <<held, detected>>

Next ==
    \/ \E langCode \in LangCodes, keep \in BOOLEAN : GetLanguageData(langCode, keep)
    \/ \E langCode \in LangCodes : GetSpamWords(langCode)
    \/ \E langCode \in LangCodes : GetHamWords(langCode)
    \/ \E langCode \in LangCodes : GetBayesianTokens(langCode)
    \/ \E langCode \in LangCodes : GetUrgencyWords(langCode)
    \/ \E langCode \in LangCodes : HasLanguageData(langCode)
    \/ GetAvailableLanguages
    \/ GetAllSupportedLanguages
    \/ PreloadAllLanguages
    \/ ClearCache

Spec == Init /\ [][Next]_vars

\* ------------------------------------------------------- resolver properties

\* The codes for which a raw dataset is registered in the table.
RegisteredCodes == DOMAIN OwnProperties

\* The ten fields of the raw dataset registered for a code.
RawFields(code) == [f \in DatasetFields |-> OwnProperties[code][f]]

\* The calls the state remembers.
Remembered == {last, held}

Resolves(c) == c.op = "getLanguageData"

\* C1: getLanguageData(code) with no raw dataset registered for the
\* normalized code returns a dataset whose fields are those of the English
\* registration, and it is the very object a getLanguageData call that
\* normalizes to "en" returns in the same cache generation.
C1_FallbackTotality ==
    \A c \in Remembered :
        (Resolves(c) /\ normalizedCode(c.input) \notin RegisteredCodes) =>
            /\ c.result.kind = "return"
            /\ c.result.value.data = RawFields(en)
            /\ \A d \in Remembered :
                  (Resolves(d) /\ normalizedCode(d.input) = en
                     /\ d.generation = c.generation) =>
                        d.result = c.result

\* C2: no resolver operation raises, whatever string it is given.
C2_NeverRaises == last.result.kind # "throw"

\* C3: two getLanguageData calls in one cache generation whose arguments
\* normalize to the same code both return, and return the same object.
C3_NormalizationIdentity ==
    \A c, d \in Remembered :
        (Resolves(c) /\ Resolves(d) /\ c.generation = d.generation
           /\ normalizedCode(c.input) = normalizedCode(d.input)) =>
              /\ c.result.kind = "return"
              /\ d.result.kind = "return"
              /\ c.result.value = d.result.value

\* C4: between two clearCache calls processDataset builds at most one object
\* from each raw dataset, and two callers that resolve the same registered
\* code in that generation hold the same object.
C4_AtMostOnceMaterialization ==
    /\ \A f \in DOMAIN allocated : allocated[f] <= 1
    /\ \A c, d \in Remembered :
          (Resolves(c) /\ Resolves(d) /\ c.generation = d.generation
             /\ normalizedCode(c.input) \in RegisteredCodes
             /\ normalizedCode(c.input) = normalizedCode(d.input)) =>
                /\ c.result.kind = "return"
                /\ c.result = d.result

\* C4 witness: two callers resolved a registered code under different
\* spellings in one generation, after every dataset was materialized.
C4_Witness ==
    /\ Resolves(held) /\ Resolves(last)
    /\ held.input # last.input
    /\ held.generation = last.generation
    /\ normalizedCode(held.input) = normalizedCode(last.input)
    /\ normalizedCode(held.input) \in RegisteredCodes
    /\ \A f \in DOMAIN allocated : allocated[f] = 1

\* C5: every cache entry is keyed by a normalized code with a registered raw
\* dataset and holds exactly the ten fields of that code's raw dataset.
C5_CacheValidity ==
    \A key \in DOMAIN datasetCache :
        /\ key \in RegisteredCodes
        /\ key = normalizedCode(key)
        /\ DOMAIN datasetCache[key].data = DatasetFields
        /\ datasetCache[key].data = RawFields(key)

\* C5 witness: the cache holds several entries after a fallback call and a
\* call that raised.
C5_Witness ==
    /\ Cardinality(DOMAIN datasetCache) >= 2
    /\ Resolves(held) /\ held.generation = generation
    /\ held.result.kind = "throw"
    /\ Resolves(last) /\ last.warned

\* C6: clearCache leaves the cache empty, and a getLanguageData call after
\* it returns a newly built dataset structurally equal to the one the same
\* call returned before it.
C6_ClearRoundTrip ==
    /\ last.op = "clearCache" => DOMAIN datasetCache = {}
    /\ (Resolves(held) /\ Resolves(last) /\ held.input = last.input
          /\ held.generation < last.generation) =>
             /\ held.result.kind = "return"
             /\ last.result.kind = "return"
             /\ last.result.value.data = held.result.value.data
             /\ last.result.value.id # held.result.value.id

\* C7: a preloadAllLanguages call leaves an entry for every registered code,
\* keeps every entry that was cached as the same object, and changes nothing
\* when it directly follows another preloadAllLanguages call.
C7_PreloadCompleteIdempotent ==
    [][last'.op = "preloadAllLanguages" =>
         /\ RegisteredCodes \subseteq DOMAIN datasetCache'
         /\ \A key \in DOMAIN datasetCache :
               key \in DOMAIN datasetCache' /\ datasetCache'[key] = datasetCache[key]
         /\ last.op = "preloadAllLanguages" => datasetCache' = datasetCache]_vars

\* C7 witness: preloadAllLanguages ran over a cache that already held the
\* entry a caller still references, and the entry is that same object.
C7_Witness ==
    /\ last.op = "preloadAllLanguages"
    /\ Resolves(held) /\ held.generation = generation
    /\ held.result.kind = "return"
    /\ normalizedCode(held.input) \in RegisteredCodes
    /\ datasetCache[normalizedCode(held.input)] = held.result.value
    /\ RegisteredCodes \subseteq DOMAIN datasetCache

\* C8: hasLanguageData(code) is true exactly when the normalized code is one
\* of the codes getAvailableLanguages() returns.
C8_HasIffAvailable ==
    last.op = "hasLanguageData" =>
        (last.result.value <=> normalizedCode(last.input) \in Range(getAvailableLanguages))

CallsGetLanguageData(c) ==
    c.op \in {"getLanguageData", "getSpamWords", "getHamWords",
              "getBayesianTokens", "getUrgencyWords"}

\* C9: a getLanguageData call warns exactly when the normalized code is not
\* "en" and has no registered raw dataset; no other operation warns; and a
\* call that warns returns what the cache holds for "en".
C9_WarningDiscipline ==
    /\ CallsGetLanguageData(last) =>
          (last.warned <=> (normalizedCode(last.input) # en
                              /\ normalizedCode(last.input) \notin RegisteredCodes))
    /\ ~CallsGetLanguageData(last) => ~last.warned
    /\ (Resolves(last) /\ last.warned) =>
          (en \in DOMAIN datasetCache /\ last.result = Returned(datasetCache[en]))

\* ======================================================= language detection

\* Map from ISO 639-3 (franc output) to ISO 639-1, as <<code3, code2>> pairs.
IsoPairs ==
    { 
<<<<"e","n","g">>, <<"e","n">>>>,
       <<<<"s","p","a">>, <<"e","s">>>>,
       <<<<"f","r","a">>, <<"f","r">>>>,
       <<<<"d","e","u">>, <<"d","e">>>>,
       <<<<"p","o","r">>, <<"p","t">>>>,
       <<<<"i","t","a">>, <<"i","t">>>>,
       <<<<"n","l","d">>, <<"n","l">>>>,
       <<<<"p","o","l">>, <<"p","l">>>>,
       <<<<"r","u","s">>, <<"r","u">>>>,
       <<<<"c","m","n">>, <<"z","h">>>>,
       <<<<"a","r","b">>, <<"a","r">>>>,
       <<<<"j","p","n">>, <<"j","a">>>>,
       <<<<"k","o","r">>, <<"k","o">>>>,
       <<<<"t","u","r">>, <<"t","r">>>>,
       <<<<"h","i","n">>, <<"h","i">>>>,
       <<<<"v","i","e">>, <<"v","i">>>>,
       <<<<"t","h","a">>, <<"t","h">>>>,
       <<<<"u","k","r">>, <<"u","k">>>>,
       <<<<"c","e","s">>, <<"c","s">>>>,
       <<<<"s","w","e">>, <<"s","v">>>>,
       <<<<"d","a","n">>, <<"d","a">>>>,
       <<<<"n","o","r">>, <<"n","o">>>>,
       <<<<"f","i","n">>, <<"f","i">>>>,
       <<<<"h","u","n">>, <<"h","u">>>>,
       <<<<"r","o","n">>, <<"r","o">>>>,
       <<<<"b","u","l">>, <<"b","g">>>>,
       <<<<"e","l","l">>, <<"e","l">>>>,
       <<<<"h","e","b">>, <<"h","e">>>>,
       <<<<"i","n","d">>, <<"i","d">>>> }

ISO_639_3_TO_639_1 == [code3 \in {pair[1] : pair \in IsoPairs} |->
                          (CHOOSE pair \in IsoPairs : pair[1] = code3)[2]]

\* "und", franc's code for an undetermined language
und == <<"u","n","d">>

\* String.prototype.substring(0, n)
substring0(str, n) == SubSeq(str, 1, IF n < Len(str) THEN n ELSE Len(str))

\* ISO_639_3_TO_639_1[code] || code.substring(0, 2)
iso639_1(code) ==
    IF code \in DOMAIN ISO_639_3_TO_639_1
    THEN ISO_639_3_TO_639_1[code]
    ELSE substring0(code, 2)

\* ------------------------------------------------------------------ numbers

\* A confidence is a fraction [num, den] in lowest terms, den > 0.
RECURSIVE Gcd(_, _)
Gcd(a, b) == IF b = 0 THEN a ELSE Gcd(b, a % b)

Abs(x) == IF x < 0 THEN -x ELSE x

Fraction(num, den) ==
    LET g == Gcd(Abs(num), Abs(den))
        sign == IF den < 0 THEN -1 ELSE 1
    IN  [num |-> sign * (num \div g), den |-> sign * (den \div g)]

Zero == Fraction(0, 1)
One == Fraction(1, 1)

Less(a, b) == a.num * b.den < b.num * a.den
Times(a, b) == Fraction(a.num * b.num, a.den * b.den)
Minus(a, b) == Fraction(a.num * b.den - b.num * a.den, a.den * b.den)
MathMax(a, b) == IF Less(a, b) THEN b ELSE a
MathMin(a, b) == IF Less(b, a) THEN b ELSE a

\* results.slice(0, n) for n >= 0
slice0(results, n) == SubSeq(results, 1, IF n < Len(results) THEN n ELSE Len(results))

\* reduce((sum, [, score]) => sum + score, 0)
RECURSIVE SumScores(_)
SumScores(results) ==
    IF results = <<>> THEN 0 ELSE results[1][2] + SumScores(Tail(results))

\* ----------------------------------------------------------- detectLanguage

\* The number of top candidates whose scores detectLanguage adds up
TopWindow == 5

\* detectLanguage's default minLength
DefaultMinLength == 10

\* the { code: "en", confidence: 0, isSupported: true, rawCode: "und" } result
DefaultResult == [code |-> en, confidence |-> Zero, isSupported |-> TRUE, rawCode |-> und]

\* The code detectLanguage reports: the mapped code whatever it is.
FinalCode_NoFallback(mapped, supported) == mapped

\* isSupported ? iso639_1 : "en"
FinalCode(mapped, supported) == IF supported THEN mapped ELSE en

\* The confidence returned as computed, without Math.min / Math.max.
Clamp_None(confidence) == confidence

\* Math.min(1, Math.max(0, confidence))
Clamp(confidence) == MathMin(One, MathMax(Zero, confidence))

\* detectLanguage reporting confidence 0 when the language is not supported.
detectLanguage_ResetUnsupported(text, minLength, results) ==
    IF text = <<>> \/ Len(trim(text)) < minLength
    THEN DefaultResult
    ELSE IF Len(results) = 0 \/ results[1][1] = und
    THEN DefaultResult
    ELSE LET topCode == results[1][1]
             topScore == results[1][2]
             mapped == iso639_1(topCode)
             isSupported == isSupportedLanguage(mapped)
             totalScore == SumScores(slice0(results, TopWindow))
             confidence == IF totalScore > 0 THEN Fraction(topScore, totalScore) ELSE Zero
         IN  [code |-> FinalCode(mapped, isSupported),
              confidence |-> IF isSupported THEN Clamp(confidence) ELSE Zero,
              isSupported |-> isSupported,
              rawCode |-> topCode]

\* detectLanguage comparing text.length, not text.trim().length, with
\* minLength.
detectLanguage_NoTrim(text, minLength, results) ==
    IF text = <<>> \/ Len(text) < minLength
    THEN DefaultResult
    ELSE IF Len(results) = 0 \/ results[1][1] = und
    THEN DefaultResult
    ELSE LET topCode == results[1][1]
             topScore == results[1][2]
             mapped == iso639_1(topCode)
             isSupported == isSupportedLanguage(mapped)
             totalScore == SumScores(slice0(results, TopWindow))
             confidence == IF totalScore > 0 THEN Fraction(topScore, totalScore) ELSE Zero
         IN  [code |-> FinalCode(mapped, isSupported),
              confidence |-> Clamp(confidence),
              isSupported |-> isSupported,
              rawCode |-> topCode]

\* detectLanguage(text, minLength), results being what francAll(text)
\* answers when it is called.
detectLanguage(text, minLength, results) ==
    IF text = <<>> \/ Len(trim(text)) < minLength
    THEN DefaultResult
    ELSE IF Len(results) = 0 \/ results[1][1] = und
    THEN DefaultResult
    ELSE LET topCode == results[1][1]
             topScore == results[1][2]
             mapped == iso639_1(topCode)
             isSupported == isSupportedLanguage(mapped)
             totalScore == SumScores(slice0(results, TopWindow))
             confidence == IF totalScore > 0 THEN Fraction(topScore, totalScore) ELSE Zero
         IN  [code |-> FinalCode(mapped, isSupported),
              confidence |-> Clamp(confidence),
              isSupported |-> isSupported,
              rawCode |-> topCode]

\* ------------------------------------------------------ detectEmailLanguage

\* combinedText.length < 50
ShortEmailLength == 50

\* detectLanguage(subject, 5)
SubjectMinLength == 5

\* detectLanguage(body, 10)
BodyMinLength == 10

\* bodyResult.confidence > 0.7
ConfidentBody == Fraction(7, 10)

\* subjectWeight's default, 0.3
DefaultSubjectWeight == Fraction(3, 10)

\* detectEmailLanguage without the bodyResult.confidence > 0.7 return.
detectEmailLanguage_NoOverride(subject, body, subjectWeight, first, second) ==
    LET bodyWeight == Minus(One, subjectWeight)
        combinedText == trim(subject \o <<" ">> \o body)
        subjectResult == detectLanguage(subject, SubjectMinLength, first)
        bodyResult == detectLanguage(body, BodyMinLength, second)
        weightedSubjectConfidence == Times(subjectResult.confidence, subjectWeight)
        weightedBodyConfidence == Times(bodyResult.confidence, bodyWeight)
    IN  IF Len(combinedText) < ShortEmailLength
        THEN detectLanguage(combinedText, DefaultMinLength, first)
        ELSE IF subjectResult.code = bodyResult.code
        THEN [code |-> bodyResult.code,
              confidence |-> MathMax(subjectResult.confidence, bodyResult.confidence),
              isSupported |-> bodyResult.isSupported,
              rawCode |-> bodyResult.rawCode]
        ELSE IF ~Less(weightedBodyConfidence, weightedSubjectConfidence)
        THEN bodyResult
        ELSE subjectResult

\* detectEmailLanguage returning bodyResult unchanged when the codes agree.
detectEmailLanguage_AgreeKeepsBody(subject, body, subjectWeight, first, second) ==
    LET bodyWeight == Minus(One, subjectWeight)
        combinedText == trim(subject \o <<" ">> \o body)
        subjectResult == detectLanguage(subject, SubjectMinLength, first)
        bodyResult == detectLanguage(body, BodyMinLength, second)
        weightedSubjectConfidence == Times(subjectResult.confidence, subjectWeight)
        weightedBodyConfidence == Times(bodyResult.confidence, bodyWeight)
    IN  IF Len(combinedText) < ShortEmailLength
        THEN detectLanguage(combinedText, DefaultMinLength, first)
        ELSE IF Less(ConfidentBody, bodyResult.confidence)
        THEN bodyResult
        ELSE IF subjectResult.code = bodyResult.code
        THEN bodyResult
        ELSE IF ~Less(weightedBodyConfidence, weightedSubjectConfidence)
        THEN bodyResult
        ELSE subjectResult

\* detectEmailLanguage comparing the weighted confidences with > instead of >=.
detectEmailLanguage_StrictCompare(subject, body, subjectWeight, first, second) ==
    LET bodyWeight == Minus(One, subjectWeight)
        combinedText == trim(subject \o <<" ">> \o body)
        subjectResult == detectLanguage(subject, SubjectMinLength, first)
        bodyResult == detectLanguage(body, BodyMinLength, second)
        weightedSubjectConfidence == Times(subjectResult.confidence, subjectWeight)
        weightedBodyConfidence == Times(bodyResult.confidence, bodyWeight)
    IN  IF Len(combinedText) < ShortEmailLength
        THEN detectLanguage(combinedText, DefaultMinLength, first)
        ELSE IF Less(ConfidentBody, bodyResult.confidence)
        THEN bodyResult
        ELSE IF subjectResult.code = bodyResult.code
        THEN [code |-> bodyResult.code,
              confidence |-> MathMax(subjectResult.confidence, bodyResult.confidence),
              isSupported |-> bodyResult.isSupported,
              rawCode |-> bodyResult.rawCode]
        ELSE IF Less(weightedSubjectConfidence, weightedBodyConfidence)
        THEN bodyResult
        ELSE subjectResult

\* detectEmailLanguage without the branch for a short combined text.
detectEmailLanguage_AlwaysSplit(subject, body, subjectWeight, first, second) ==
    LET bodyWeight == Minus(One, subjectWeight)
        subjectResult == detectLanguage(subject, SubjectMinLength, first)
        bodyResult == detectLanguage(body, BodyMinLength, second)
        weightedSubjectConfidence == Times(subjectResult.confidence, subjectWeight)
        weightedBodyConfidence == Times(bodyResult.confidence, bodyWeight)
    IN  IF Less(ConfidentBody, bodyResult.confidence)
        THEN bodyResult
        ELSE IF subjectResult.code = bodyResult.code
        THEN [code |-> bodyResult.code,
              confidence |-> MathMax(subjectResult.confidence, bodyResult.confidence),
              isSupported |-> bodyResult.isSupported,
              rawCode |-> bodyResult.rawCode]
        ELSE IF ~Less(weightedBodyConfidence, weightedSubjectConfidence)
        THEN bodyResult
        ELSE subjectResult

\* detectEmailLanguage(subject, body, subjectWeight).  first and second are
\* francAll's answers to the first and the second call made: on the short
\* path the only call is for the combined text, otherwise the calls are for
\* the subject and then the body.
detectEmailLanguage(subject, body, subjectWeight, first, second) ==
    LET bodyWeight == Minus(One, subjectWeight)
        combinedText == trim(subject \o <<" ">> \o body)
        subjectResult == detectLanguage(subject, SubjectMinLength, first)
        bodyResult == detectLanguage(body, BodyMinLength, second)
        weightedSubjectConfidence == Times(subjectResult.confidence, subjectWeight)
        weightedBodyConfidence == Times(bodyResult.confidence, bodyWeight)
    IN  IF Len(combinedText) < ShortEmailLength
        THEN detectLanguage(combinedText, DefaultMinLength, first)
        ELSE IF Less(ConfidentBody, bodyResult.confidence)
        THEN bodyResult
        ELSE IF subjectResult.code = bodyResult.code
        THEN [code |-> bodyResult.code,
              confidence |-> MathMax(subjectResult.confidence, bodyResult.confidence),
              isSupported |-> bodyResult.isSupported,
              rawCode |-> bodyResult.rawCode]
        ELSE IF ~Less(weightedBodyConfidence, weightedSubjectConfidence)
        THEN bodyResult
        ELSE subjectResult

\* ---------------------------------------------------------- detectLanguages

\* detectLanguages's default limit
DefaultLimit == 5

\* text.trim().length < 10
RankedMinLength == 10

\* detectLanguages dividing by the total of the first five candidates,
\* whatever the limit.
detectLanguages_WindowOfFive(text, limit, results) ==
    IF text = <<>> \/ Len(trim(text)) < RankedMinLength
    THEN <<DefaultResult>>
    ELSE IF Len(results) = 0
    THEN <<DefaultResult>>
    ELSE LET window == slice0(results, limit)
             totalScore == SumScores(slice0(results, TopWindow))
         IN  [i \in DOMAIN window |->
                LET code == window[i][1]
                    score == window[i][2]
                    mapped == iso639_1(code)
                    isSupported == isSupportedLanguage(mapped)
                IN  [code |-> FinalCode(mapped, isSupported),
                     confidence |-> IF totalScore > 0
                                    THEN Fraction(score, totalScore)
                                    ELSE Zero,
                     isSupported |-> isSupported,
                     rawCode |-> code]]

\* detectLanguages(text, limit), results being what francAll(text) answers
\* when it is called.
detectLanguages(text, limit, results) ==
    IF text = <<>> \/ Len(trim(text)) < RankedMinLength
    THEN <<DefaultResult>>
    ELSE IF Len(results) = 0
    THEN <<DefaultResult>>
    ELSE LET window == slice0(results, limit)
             totalScore == SumScores(window)
         IN  [i \in DOMAIN window |->
                LET code == window[i][1]
                    score == window[i][2]
                    mapped == iso639_1(code)
                    isSupported == isSupportedLanguage(mapped)
                IN  [code |-> FinalCode(mapped, isSupported),
                     confidence |-> IF totalScore > 0
                                    THEN Fraction(score, totalScore)
                                    ELSE Zero,
                     isSupported |-> isSupported,
                     rawCode |-> code]]

\* -------------------------------------------------------- detection inputs

Pad(n, ch) == [i \in 1..n |-> ch]

\* A text of n letters between lead and trail blanks.
Text(lead, n, trail) == Pad(lead, " ") \o Pad(n, "a") \o Pad(trail, " ")

\* Texts around the minimum lengths 5 and 10: empty, blank, "hi"-sized, and
\* texts whose length reaches a minimum only with their blanks.
DetectTexts ==
    { Text(0, 0, 0), Text(2, 0, 1), Text(0, 2, 0), Text(1, 4, 1),
      Text(0, 5, 0), Text(1, 9, 2), Text(0, 10, 0), Text(1, 12, 0) }

MinLengths == {0, SubjectMinLength, DefaultMinLength}

Limits == {0, 1, 3, DefaultLimit}

\* <<subject, body>> pairs around the combined length 50.
EmailTexts ==
    { <<Text(0, 0, 0), Text(0, 0, 0)>>,
      <<Text(0, 5, 0), Text(0, 12, 0)>>,
      <<Text(0, 5, 0), Text(0, 43, 0)>>,
      <<Text(0, 5, 0), Text(0, 44, 0)>>,
      <<Text(0, 4, 0), Text(0, 45, 0)>>,
      <<Text(0, 41, 0), Text(0, 9, 0)>>,
      <<Text(1, 5, 0), Text(0, 44, 1)>> }

SubjectWeights == {DefaultSubjectWeight, Fraction(1, 2), Fraction(9, 10)}

\* francAll's answers.  The top code is one that the table maps to a
\* supported code (eng, spa), one it maps to an unsupported code (cmn), one
\* it does not map and whose first two letters are no supported code (sco)
\* or are one (enm), or the undetermined code; the candidates below the top
\* are fixed.
eng == <<"e","n","g">>
spa == <<"s","p","a">>
cmn == <<"c","m","n">>
sco == <<"s","c","o">>
enm == <<"e","n","m">>

TopCodes == {eng, spa, cmn, sco, enm, und}

LowerCandidates == <<eng, <<"f","r","a">>, und, cmn, sco, <<"i","t","a">>>>

\* The scores of the candidates, in francAll's order: none, one, sums of
\* zero, descending scores, and scores that are not descending or negative.
ScoreProfiles ==
    { <<>>, <<1>>, <<0>>, <<0, 0>>, <<3, 1>>, <<3, 2>>, <<2, 3>>, <<7, 3>>,
      <<9, 3, 3>>, <<4, 2, 1, 1, 1, 1>>,
      <<3, -1>>, <<-1, 2>>, <<-2, 1>> }

Ranking(top, scores) ==
    [i \in DOMAIN scores |-> <<IF i = 1 THEN top ELSE LowerCandidates[i], scores[i]>>]

Rankings == {Ranking(top, scores) : top \in TopCodes, scores \in ScoreProfiles}

EmailRankings ==
    {Ranking(top, scores) : top \in {eng, spa, cmn, und},
                            scores \in {p \in ScoreProfiles : Len(p) <= 2}}

DetectLanguageCalls ==
    [op : {"detectLanguage"}, pending : {TRUE}, text : DetectTexts, body : {<<>>},
     number : MinLengths, weight : {Zero}, first : Rankings, second : {<<>>},
     results : {<<>>}]

DetectEmailLanguageCalls ==
    {[op |-> "detectEmailLanguage", pending |-> TRUE, text |-> t[1], body |-> t[2],
      number |-> 0, weight |-> w, first |-> r1, second |-> r2, results |-> <<>>] :
        t \in EmailTexts, w \in SubjectWeights, r1 \in EmailRankings, r2 \in EmailRankings}

DetectLanguagesCalls ==
    [op : {"detectLanguages"}, pending : {TRUE}, text : DetectTexts, body : {<<>>},
     number : Limits, weight : {Zero}, first : Rankings, second : {<<>>},
     results : {<<>>}]

\* ------------------------------------------------------- detection actions

\* A detection call is about to be made, with an empty dataset cache.
DetectInit ==
    /\ datasetCache = EmptyMap
    /\ generation = 0
    /\ allocated = NoAllocations
    /\ last = NoCall
    /\ held = NoCall
    /\ detected \in DetectLanguageCalls \cup DetectEmailLanguageCalls
                      \cup DetectLanguagesCalls

Done(results) == [detected EXCEPT !.pending = FALSE, !.results = results]

DetectLanguage ==
    /\ detected.op = "detectLanguage" /\ detected.pending
    /\ detected' = Done(<<detectLanguage(detected.text, detected.number, detected.first)>>)
    /\ UNCHANGED <<datasetCache, generation, allocated, last, held>>

DetectEmailLanguage ==
    /\ detected.op = "detectEmailLanguage" /\ detected.pending
    /\ detected' = Done(<<detectEmailLanguage(detected.text, detected.body,
                              detected.weight, detected.first, detected.second)>>)
    /\ UNCHANGED <<datasetCache, generation, allocated, last, held>>

DetectLanguages ==
    /\ detected.op = "detectLanguages" /\ detected.pending
    /\ detected' = Done(detectLanguages(detected.text, detected.number, detected.first))
    /\ UNCHANGED <<datasetCache, generation, allocated, last, held>>

\* The caller passes the code of the i-th result to getLanguageData.
ResolveDetected(i) ==
    /\ ~detected.pending
    /\ i \in DOMAIN detected.results
    /\ GetLanguageData(detected.results[i].code, FALSE)

DetectNext ==
    \/ DetectLanguage
    \/ DetectEmailLanguage
    \/ DetectLanguages
    \/ \E i \in 1..Len(LowerCandidates) : ResolveDetected(i)

DetectSpec == DetectInit /\ [][DetectNext]_vars

\* ------------------------------------------------------ detector properties

\* C10: the code of every result of detectLanguage, detectEmailLanguage and
\* detectLanguages is a non-empty member of SUPPORTED_LANGUAGES, and
\* getLanguageData called with it returns the dataset registered for that
\* code, without the fallback warning.
C10_DetectedCodeResolvable ==
    /\ \A i \in DOMAIN detected.results :
          /\ detected.results[i].code # <<>>
          /\ detected.results[i].code \in Range(SUPPORTED_LANGUAGES)
    /\ Resolves(last) =>
          /\ \E i \in DOMAIN detected.results : detected.results[i].code = last.input
          /\ last.result.kind = "return"
          /\ ~last.warned
          /\ last.input \in RegisteredCodes
          /\ last.result.value.data = RawFields(last.input)

\* C10 witness: a result whose language is not supported carries a code that
\* getLanguageData has resolved.
C10_Witness ==
    /\ Resolves(last)
    /\ \E i \in DOMAIN detected.results :
          /\ ~detected.results[i].isSupported
          /\ detected.results[i].rawCode # und
          /\ detected.results[i].code = last.input

\* The sum of the first k of a ranking's scores.
RECURSIVE SumFirst(_, _)
SumFirst(ranking, k) ==
    IF k = 0 THEN 0 ELSE SumFirst(ranking, k - 1) + ranking[k][2]

Min(a, b) == IF a < b THEN a ELSE b

InUnitInterval(c) == c.den > 0 /\ 0 <= c.num /\ c.num <= c.den

\* detectLanguage consulted the classifier and got a determined top candidate.
Classified(text, minLength, ranking) ==
    /\ text # <<>>
    /\ Len(trim(text)) >= minLength
    /\ Len(ranking) > 0
    /\ ranking[1][1] # und

Ran(op) == detected.op = op /\ ~detected.pending

\* C11: detectLanguage returns a confidence in [0,1]: the top score divided
\* by the sum of the first min(5, n) scores, 0 when that sum is not positive,
\* brought into [0,1]; and so does detectEmailLanguage.
C11_ConfidenceBound ==
    /\ (Ran("detectLanguage") \/ Ran("detectEmailLanguage")) =>
          InUnitInterval(detected.results[1].confidence)
    /\ (Ran("detectLanguage")
          /\ Classified(detected.text, detected.number, detected.first)) =>
          LET sum == SumFirst(detected.first, Min(5, Len(detected.first)))
              top == detected.first[1][2]
              c == detected.results[1].confidence
          IN  /\ sum <= 0 => c = Zero
              /\ (sum > 0 /\ top < 0) => c = Zero
              /\ (sum > 0 /\ top > sum) => c = One
              /\ (sum > 0 /\ 0 <= top /\ top <= sum) =>
                    c.num * sum = top * c.den

\* C11 witness: detectLanguage ran on a ranking with a negative score whose
\* top score exceeds the sum of the window, and returned confidence 1.
C11_Witness ==
    /\ Ran("detectLanguage")
    /\ Classified(detected.text, detected.number, detected.first)
    /\ \E i \in DOMAIN detected.first : detected.first[i][2] < 0
    /\ detected.first[1][2] > SumFirst(detected.first, Len(detected.first))
    /\ detected.results[1].confidence = One

\* The result {code: "en", confidence: 0, isSupported: true, rawCode: "und"}
EnglishDefault ==
    [code |-> <<"e","n">>, confidence |-> [num |-> 0, den |-> 1],
     isSupported |-> TRUE, rawCode |-> <<"u","n","d">>]

NoDetermination(ranking) == Len(ranking) = 0 \/ ranking[1][1] = <<"u","n","d">>

MappedCode(code3) ==
    IF \E pair \in IsoPairs : pair[1] = code3
    THEN (CHOOSE pair \in IsoPairs : pair[1] = code3)[2]
    ELSE <<code3[1], code3[2]>>

\* c is score / sum brought into [0,1], and 0 when sum is not positive.
IsShare(c, score, sum) ==
    /\ sum <= 0 => c = [num |-> 0, den |-> 1]
    /\ (sum > 0 /\ score < 0) => c = [num |-> 0, den |-> 1]
    /\ (sum > 0 /\ score > sum) => c = [num |-> 1, den |-> 1]
    /\ (sum > 0 /\ 0 <= score /\ score <= sum) =>
          (c.den > 0 /\ c.num * sum = score * c.den)

\* c is the confidence of the ranking's top candidate among its first five.
IsTopConfidence(c, ranking) ==
    IsShare(c, ranking[1][2], SumFirst(ranking, Min(5, Len(ranking))))

\* C13: when the top candidate's two-letter code (the table's, else its
\* first two letters) is not a supported code, detectLanguage returns
\* isSupported = false and code "en" with the candidate's own code as rawCode
\* and the confidence computed from the ranking; and a result with
\* isSupported = true carries the candidate's two-letter code.
C13_UnsupportedMapping ==
    (Ran("detectLanguage")
       /\ Classified(detected.text, detected.number, detected.first)) =>
       LET top == detected.first[1][1]
           result == detected.results[1]
       IN  /\ MappedCode(top) \notin Range(SUPPORTED_LANGUAGES) =>
                 /\ result.isSupported = FALSE
                 /\ result.code = <<"e","n">>
                 /\ result.rawCode = top
                 /\ IsTopConfidence(result.confidence, detected.first)
           /\ result.isSupported => result.code = MappedCode(top)

\* C13 witness: a top candidate the table does not map, whose first two
\* letters are no supported code, was reported with a positive confidence.
C13_Witness ==
    /\ Ran("detectLanguage")
    /\ Classified(detected.text, detected.number, detected.first)
    /\ ~\E pair \in IsoPairs : pair[1] = detected.first[1][1]
    /\ ~detected.results[1].isSupported
    /\ detected.results[1].confidence.num > 0
    /\ detected.results[1].confidence # [num |-> 1, den |-> 1]

\* The trimmed length of subject + " " + body is at least 50.
LongEmail == Len(trim(detected.text \o <<" ">> \o detected.body)) >= 50

\* What detectLanguage(subject, 5) and detectLanguage(body, 10) return.
SubjectDetection == detectLanguage(detected.text, 5, detected.first)
BodyDetection == detectLanguage(detected.body, 10, detected.second)

\* a > b, for fractions with positive denominators
Greater(a, b) == a.num * b.den > b.num * a.den

SevenTenths == [num |-> 7, den |-> 10]

\* C14: when the combined text has at least 50 characters and the body
\* detection's confidence exceeds 0.7, detectEmailLanguage returns the body
\* detection unchanged, whatever the subject detection and the weight.
C14_ConfidentBodyOverride ==
    (Ran("detectEmailLanguage") /\ LongEmail
       /\ Greater(BodyDetection.confidence, SevenTenths)) =>
       detected.results = <<BodyDetection>>

\* C14 witness: the body detection is confident, the subject detection names
\* another language with at least the body's confidence, and the weight
\* favours the subject.
C14_Witness ==
    /\ Ran("detectEmailLanguage") /\ LongEmail
    /\ Greater(BodyDetection.confidence, SevenTenths)
    /\ SubjectDetection.code # BodyDetection.code
    /\ Greater(SubjectDetection.confidence, BodyDetection.confidence)
    /\ Greater(detected.weight, [num |-> 1, den |-> 2])

\* The body detection does not exceed 0.7, so the override of C14 is not taken.
BodyNotConfident == ~Greater(BodyDetection.confidence, SevenTenths)

\* c is the greater of the confidences a and b.
IsMax(c, a, b) == (c = a \/ c = b) /\ ~Greater(a, c) /\ ~Greater(b, c)

\* C15: for a combined text of at least 50 characters and a body confidence
\* of at most 0.7, when the subject and body detections have the same code
\* the result has the body's code, rawCode and isSupported and the greater of
\* the two confidences, whatever the weight.
C15_AgreementTakesMax ==
    (Ran("detectEmailLanguage") /\ LongEmail /\ BodyNotConfident
       /\ SubjectDetection.code = BodyDetection.code) =>
       /\ Len(detected.results) = 1
       /\ detected.results[1].code = BodyDetection.code
       /\ detected.results[1].rawCode = BodyDetection.rawCode
       /\ detected.results[1].isSupported = BodyDetection.isSupported
       /\ IsMax(detected.results[1].confidence,
                SubjectDetection.confidence, BodyDetection.confidence)

\* C15 witness: the detections agree on the code, the subject is the more
\* confident one, and they differ in rawCode, so the result is neither
\* detection.
C15_Witness ==
    /\ Ran("detectEmailLanguage") /\ LongEmail /\ BodyNotConfident
    /\ SubjectDetection.code = BodyDetection.code
    /\ SubjectDetection.rawCode # BodyDetection.rawCode
    /\ Greater(SubjectDetection.confidence, BodyDetection.confidence)
    /\ Greater(BodyDetection.confidence, [num |-> 0, den |-> 1])
    /\ detected.results[1].confidence = SubjectDetection.confidence

\* bodyConfidence * (1 - subjectWeight) >= subjectConfidence * subjectWeight
BodyOutweighs ==
    LET w == detected.weight
        s == SubjectDetection.confidence
        b == BodyDetection.confidence
    IN  b.num * (w.den - w.num) * s.den >= s.num * w.num * b.den

\* C16: for a combined text of at least 50 characters, a body confidence of
\* at most 0.7 and detections with different codes, the result is the body
\* detection when its weighted confidence is at least the subject's, and
\* the subject detection otherwise.
C16_WeightedChoice ==
    (Ran("detectEmailLanguage") /\ LongEmail /\ BodyNotConfident
       /\ SubjectDetection.code # BodyDetection.code) =>
       /\ BodyOutweighs => detected.results = <<BodyDetection>>
       /\ ~BodyOutweighs => detected.results = <<SubjectDetection>>

\* C16 witness: equal confidences under the weight 1/2, different codes; the
\* weighted confidences tie and the body detection is returned.
C16_Witness ==
    /\ Ran("detectEmailLanguage") /\ LongEmail /\ BodyNotConfident
    /\ SubjectDetection.code # BodyDetection.code
    /\ detected.weight = [num |-> 1, den |-> 2]
    /\ SubjectDetection.confidence = BodyDetection.confidence
    /\ Greater(BodyDetection.confidence, [num |-> 0, den |-> 1])
    /\ detected.results = <<BodyDetection>>

\* Another reachable case of C16: the subject detection outweighs the body.
C16_SubjectWins ==
    /\ Ran("detectEmailLanguage") /\ LongEmail /\ BodyNotConfident
    /\ SubjectDetection.code # BodyDetection.code
    /\ ~BodyOutweighs
    /\ detected.results = <<SubjectDetection>>

\* The sum of the confidences of the first k results, as a fraction.
RECURSIVE SumConfidences(_, _)
SumConfidences(results, k) ==
    IF k = 0 THEN [num |-> 0, den |-> 1]
    ELSE LET rest == SumConfidences(results, k - 1)
             c == results[k].confidence
         IN  [num |-> rest.num * c.den + c.num * rest.den, den |-> rest.den * c.den]

\* c is score / sum, or 0 when the sum is not positive.
IsRatio(c, score, sum) ==
    IF sum > 0 THEN c.den # 0 /\ c.num * sum = score * c.den ELSE c.num = 0 /\ c.den # 0

\* detectLanguages has consulted the classifier and got candidates.
Ranked == /\ Ran("detectLanguages")
          /\ detected.text # <<>>
          /\ Len(trim(detected.text)) >= 10
          /\ Len(detected.first) > 0

\* C17: for a text of trimmed length at least 10 and a ranking of n > 0
\* candidates, detectLanguages(text, limit) returns min(limit, n) results in
\* the ranking's order, each with the candidate's code as rawCode and, as
\* confidence, its score divided by the sum of the scores of those
\* min(limit, n) candidates (0 when that sum is not positive); the
\* confidences sum to 1 when the sum is positive.
C17_NormalizationWindow ==
    Ranked =>
       LET k == Min(detected.number, Len(detected.first))
           sum == SumFirst(detected.first, k)
       IN  /\ Len(detected.results) = k
           /\ \A i \in 1..k :
                /\ detected.results[i].rawCode = detected.first[i][1]
                /\ IsRatio(detected.results[i].confidence, detected.first[i][2], sum)
           /\ sum > 0 =>
                LET total == SumConfidences(detected.results, k)
                IN  total.den # 0 /\ total.num = total.den

\* C17 witness: six candidates, limit 3: three results, the first with
\* confidence 4/7 of the window and not 4/9 of the first five or 4/10 of all.
C17_Witness ==
    /\ Ranked
    /\ Len(detected.first) = 6
    /\ detected.number = 3
    /\ Len(detected.results) = 3
    /\ detected.results[1].confidence.num * 7 = 4 * detected.results[1].confidence.den
    /\ detected.results[3].rawCode = detected.first[3][1]

\* What detectLanguage answers for the trimmed combined text with the
\* default minimum length.
CombinedDetection ==
    detectLanguage(trim(detected.text \o <<" ">> \o detected.body), 10, detected.first)

\* The four branches of detectEmailLanguage, each under the negation of
\* the ones before it.
ShortBranch == ~LongEmail
OverrideBranch == LongEmail /\ ~BodyNotConfident
AgreementBranch ==
    LongEmail /\ BodyNotConfident /\ SubjectDetection.code = BodyDetection.code
WeightedBranch ==
    LongEmail /\ BodyNotConfident /\ SubjectDetection.code # BodyDetection.code

\* The number of branches that apply.
BranchCount ==
    Cardinality({b \in {"short", "override", "agreement", "weighted"} :
        \/ b = "short" /\ ShortBranch
        \/ b = "override" /\ OverrideBranch
        \/ b = "agreement" /\ AgreementBranch
        \/ b = "weighted" /\ WeightedBranch})

\* C18: for every subject, body and weight strictly between 0 and 1,
\* detectEmailLanguage returns exactly one result, fixed by the inputs and
\* the classifier's answers: the detection of the combined text with
\* minimum length 10 when the combined text is shorter than 50, else the
\* body detection when it exceeds 0.7, else the agreeing detection, else
\* the weighted choice; exactly one of these cases applies.
C18_TotalDecisionProcedure ==
    Ran("detectEmailLanguage") =>
       /\ Len(detected.results) = 1
       /\ detected.results[1].code \in Range(SUPPORTED_LANGUAGES)
       /\ BranchCount = 1
       /\ ShortBranch => detected.results = <<CombinedDetection>>
       /\ OverrideBranch => detected.results = <<BodyDetection>>
       /\ AgreementBranch =>
            detected.results[1] =
               [BodyDetection EXCEPT !.confidence = detected.results[1].confidence]
       /\ WeightedBranch => detected.results[1] \in {SubjectDetection, BodyDetection}

\* C18 witness: a combined text of fewer than 50 characters whose body alone
\* would be detected as another language with confidence above 0.7; the
\* result is the detection of the combined text.
C18_Witness ==
    /\ Ran("detectEmailLanguage") /\ ShortBranch
    /\ Greater(BodyDetection.confidence, SevenTenths)
    /\ BodyDetection.code # CombinedDetection.code
    /\ Greater(CombinedDetection.confidence, [num |-> 0, den |-> 1])
    /\ detected.results = <<CombinedDetection>>

\* The only key a getLanguageData(langCode) call may add to the cache: the
\* normalized code when a raw dataset is registered for it, "en" otherwise.
DesignatedKey(langCode) ==
    IF normalizedCode(langCode) \in RegisteredCodes
    THEN normalizedCode(langCode)
    ELSE en

\* C19: a getLanguageData call keeps every cache entry as it is and adds at
\* most the entry of the normalized code (registered and not cached) or of
\* "en" (code not registered, "en" not cached); when that entry is already
\* cached the cache does not change; hasLanguageData, getAvailableLanguages
\* and getAllSupportedLanguages leave the cache as it is.
C19_FrameEffect ==
    [][/\ CallsGetLanguageData(last') =>
            LET key == DesignatedKey(last'.input)
            IN  /\ \A k \in DOMAIN datasetCache :
                      k \in DOMAIN datasetCache' /\ datasetCache'[k] = datasetCache[k]
                /\ DOMAIN datasetCache' \ DOMAIN datasetCache \subseteq {key}
                /\ key \in DOMAIN datasetCache => datasetCache' = datasetCache
                /\ (key \notin DOMAIN datasetCache /\ last'.result.kind = "return") =>
                      DOMAIN datasetCache' = DOMAIN datasetCache \cup {key}
       /\ last'.op \in {"hasLanguageData", "getAvailableLanguages",
                        "getAllSupportedLanguages"} =>
            datasetCache' = datasetCache]_vars

\* C19 witness: after a cached "es", a call for an unregistered code has
\* returned the fallback; the cache holds "es" as the caller got it and the
\* one "en" entry the fallback made, and nothing under the requested code.
C19_Witness ==
    /\ Resolves(last) /\ last.result.kind = "return" /\ last.warned
    /\ normalizedCode(last.input) \notin RegisteredCodes
    /\ Resolves(held) /\ held.generation = generation
    /\ normalizedCode(held.input) = es
    /\ DOMAIN datasetCache = {en, es}
    /\ datasetCache[es] = held.result.value
    /\ datasetCache[en] = last.result.value
    /\ allocated[FileOf(enData)] = 1

\* The classifier's contract: scores are not negative and do not increase.
InContract(ranking) ==
    \A i \in DOMAIN ranking :
        /\ ranking[i][2] >= 0
        /\ i < Len(ranking) => ranking[i][2] >= ranking[i + 1][2]

\* a = b, for fractions with non-zero denominators
SameNumber(a, b) == a.num * b.den = b.num * a.den

\* The first element of what detectLanguages returned is what
\* detectLanguage(text, 10) returns for the same classifier answer.
FirstIsSingleDetection ==
    LET single == detectLanguage(detected.text, 10, detected.first)
    IN  /\ Len(detected.results) >= 1
        /\ detected.results[1].code = single.code
        /\ detected.results[1].isSupported = single.isSupported
        /\ detected.results[1].rawCode = single.rawCode
        /\ SameNumber(detected.results[1].confidence, single.confidence)

\* C20: for every text and every answer of the classifier, an empty ranking
\* and a ranking headed by the undetermined code included, the first element
\* of detectLanguages(text, 5) has the code, isSupported, rawCode and
\* confidence of detectLanguage(text, 10).
C20_FirstAgreesWithSingle ==
    (Ran("detectLanguages") /\ detected.number = 5 /\ InContract(detected.first)) =>
        FirstIsSingleDetection

\* The agreement of C20 for the answers that are not headed by the
\* undetermined code.
C20_AgreesWhenDetermined ==
    (Ran("detectLanguages") /\ detected.number = 5 /\ InContract(detected.first)
       /\ ~(Len(detected.first) > 0 /\ detected.first[1][1] = <<"u","n","d">>)) =>
        FirstIsSingleDetection

\* The case in which C20 fails: a text long enough, the undetermined code
\* first with a positive score, and a first element that is marked
\* unsupported with a positive confidence.
C20_UndeterminedReported ==
    /\ Ranked /\ detected.number = 5 /\ InContract(detected.first)
    /\ detected.first[1][1] = <<"u","n","d">>
    /\ detected.results[1].isSupported = FALSE
    /\ detected.results[1].confidence.num > 0

====
